---- MODULE Spec2Model ----
(***************************************************************************)
(* A model of Automate-DeepClean: the parameter rules (Rules/rules.py),    *)
(* the parameter actions (Rules/actions.py), the traversal rules           *)
(* (Rules/traversal.py, main.py) and the orchestration (main.py).          *)
(*                                                                         *)
(* Python values are tagged records [tag, s, n]: tag is the Python type    *)
(* ("absent" for a missing key or attribute), s the characters of a str,   *)
(* n the number of an int or bool.  A str is a sequence of characters so   *)
(* that startswith is computed, not assumed.                               *)
(***************************************************************************)
EXTENDS Integers, Sequences, FiniteSets, TLC

\* ------------------------------------------------------------------ bounds
MaxNameLen == 2        \* longest str used as a parameter name or a prefix
MaxCalls == 2          \* apply calls made on one action instance

\* ------------------------------------------------------------ Python values
Chars == {"I", "Z"}

StrOfLen(n) == [1..n -> Chars]

Strings == UNION {StrOfLen(n) : n \in 0..MaxNameLen}

Absent == [tag |-> "absent", s |-> <<>>, n |-> 0]

None == [tag |-> "None", s |-> <<>>, n |-> 0]

StrV(x) == [tag |-> "str", s |-> x, n |-> 0]

IntV(i) == [tag |-> "int", s |-> <<>>, n |-> i]

BoolV(b) == [tag |-> "bool", s |-> <<>>, n |-> IF b THEN 1 ELSE 0]

\* Python truthiness of a value that is present (bool(v)).
Truthy(v) ==
    CASE v.tag = "None" -> FALSE
      [] v.tag = "str" -> v.s # <<>>
      [] v.tag = "int" -> v.n # 0
      [] v.tag = "bool" -> v.n # 0
      [] OTHER -> FALSE

\* prefix in s: the characters of prefix occur somewhere in s.
ContainsAnywhere(s, prefix) ==
    \E offset \in 0..Len(s) :
        /\ offset + Len(prefix) <= Len(s)
        /\ \A i \in 1..Len(prefix) : s[offset + i] = prefix[i]

\* str.startswith(prefix) on two character sequences.
StartsWith(s, prefix) ==
    /\ Len(prefix) <= Len(s)
    /\ \A i \in 1..Len(prefix) : s[i] = prefix[i]

\* ------------------------------------------------------------- the graph
\* Node ids (Base.id) of the graph the actions and the run work on.
Nodes == {"n1", "n2"}

\* Keys a Parameter Collection can hold (member names of parameters.__dict__).
Keys == StrOfLen(1)

\* What parent_object["parameters"] can be: a Base, a plain dict, None, or
\* no member at all.
Shapes == {"Base", "dict", "None", "absent"}

\* parameter["name"] as the callers can pass it.
NameValues == {Absent, None, IntV(7)} \cup {StrV(x) : x \in Strings}

\* parameter["applicationInternalName"] as the callers can pass it.
AppValues == {Absent} \cup {StrV(k) : k \in Keys}

\* parameter["value"] / parameter.get("value") as the callers can pass it.
ValueValues ==
    {Absent, None, StrV(<<>>), StrV(<<"I">>), StrV(<<"D">>), IntV(0),
     IntV(7), BoolV(FALSE), BoolV(TRUE)}

\* The literal "Default" (one character stands for the whole literal).
DefaultLiteral == StrV(<<"D">>)

\* The literal "Updated Value".
UpdatedLiteral == StrV(<<"U">>)

Parameter(name, app, value) ==
    [name |-> name, applicationInternalName |-> app, value |-> value]

VARIABLES
    action,               \* the action instance: kind and constructor arguments
    parameters,           \* node id -> [shape, keys]: parent_object["parameters"]
    affected_parameters,  \* the action's accumulator: [keys, list]
    sink,                 \* calls made to attach_info_to_objects, in order
    op,                   \* the last call made on the action, and how it ended
    ncalls,               \* number of apply calls made so far
    original,             \* parameters as it was before any operation
    entries,              \* node id -> key -> the Parameter stored under the key
    pass,                 \* passes over the graph completed so far
    order,                \* the nodes a pass visits, in visiting order
    route,                \* nodes the current pass has still to visit
    todo,                 \* parameters of the visited node still to be applied
    function_inputs,      \* function_inputs.forbidden_parameter_prefix
    speckle_type,         \* node id -> the node's type tag
    members,              \* node id -> member name -> the member's value
    pc,                   \* where automate_function is
    stack,                \* GraphTraversal's stack of contexts
    visited,              \* the contexts traverse has yielded, in order
    cleansed_objects,     \* automate_function's cleansed_objects dict
    calls                 \* calls made on automate_context, in order

actionVars == <<action, parameters, affected_parameters, sink, op, ncalls>>

passVars == <<entries, pass, order, route, todo>>

graphVars == <<speckle_type, members>>

runVars == <<function_inputs, pc, stack, visited, cleansed_objects, calls>>

vars == <<actionVars, original, passVars, graphVars, runVars>>

\* ------------------------------------------------------ Rules/rules.py
\* dict.get(key): the value, or None when the key is missing.
Get(parameter, key) ==
    IF parameter[key] = Absent THEN None ELSE parameter[key]

\* ParameterRules.has_missing_value: not parameter.get("value")
has_missing_value(parameter) == ~Truthy(Get(parameter, "value"))

\* ParameterRules.has_default_value: parameter.get("value") == "Default"
has_default_value(parameter) == Get(parameter, "value") = DefaultLiteral

\* ---------------------------------------------------- Rules/actions.py
\* ParameterAction.__init__: an empty defaultdict(list).
EmptyAffected == [keys |-> {}, list |-> [n \in Nodes |-> <<>>]]

\* self.affected_parameters[key].append(x) on a defaultdict(list): the key
\* is created on first access.
DictAppend(d, key, x) ==
    [keys |-> d.keys \cup {key}, list |-> [d.list EXCEPT ![key] = Append(@, x)]]

\* self.affected_parameters[key] on a defaultdict(list): a missing key is
\* created with an empty list by the access itself.
DictAccess(d, key) == [d EXCEPT !.keys = @ \cup {key}]

\* What one call of apply leaves behind: how it ended, the graph, the
\* accumulator and the parameter passed in.
Outcome(result, params, affected, parameter) ==
    [result |-> result, parameters |-> params,
     affected_parameters |-> affected, parameter |-> parameter]

Unchanged(result, parameter) ==
    Outcome(result, parameters, affected_parameters, parameter)

\* RemoveByApplicationName with the append to the accumulator left out.
RemoveWithoutRecord(parameter, node) ==
    LET application_name == parameter.applicationInternalName IN
    IF application_name = Absent
    THEN Unchanged("returned", parameter)
    ELSE IF application_name.s \in parameters[node].keys
    THEN Outcome("returned",
                 [parameters EXCEPT ![node].keys = @ \ {application_name.s}],
                 affected_parameters, parameter)
    ELSE Unchanged("returned", parameter)

\* RemoveByApplicationName without the membership test: pop(key, None), and
\* the name recorded whether or not an entry went.
RemoveUnguarded(parameter, node) ==
    LET application_name == parameter.applicationInternalName IN
    IF application_name = Absent
    THEN Unchanged("returned", parameter)
    ELSE Outcome("returned",
                 [parameters EXCEPT ![node].keys = @ \ {application_name.s}],
                 DictAppend(affected_parameters, node, parameter.name),
                 parameter)

\* RemoveByApplicationName with the membership test made on the keys the
\* collection had at first: the name is recorded again for an entry that has
\* already gone.
RemoveByOriginalKeys(parameter, node) ==
    LET application_name == parameter.applicationInternalName IN
    IF application_name = Absent
    THEN Unchanged("returned", parameter)
    ELSE IF application_name.s \in original[node].keys
    THEN Outcome("returned",
                 [parameters EXCEPT ![node].keys = @ \ {application_name.s}],
                 DictAppend(affected_parameters, node, parameter.name),
                 parameter)
    ELSE Unchanged("returned", parameter)

\* The try block of PrefixRemovalAction.apply: KeyError is swallowed.
RemoveByApplicationName(parameter, node) ==
    LET application_name == parameter.applicationInternalName IN
    IF application_name = Absent
    THEN Unchanged("returned", parameter)
    ELSE IF application_name.s \in parameters[node].keys
    THEN Outcome("returned",
                 [parameters EXCEPT ![node].keys = @ \ {application_name.s}],
                 DictAppend(affected_parameters, node, parameter.name),
                 parameter)
    ELSE Unchanged("returned", parameter)

\* PrefixRemovalAction.apply(parameter, parent_object)
PrefixRemovalApply(parameter, node) ==
    LET param_name == parameter.name IN
    IF param_name = Absent
    THEN Unchanged("KeyError", parameter)
    ELSE IF ~Truthy(param_name)
    THEN Unchanged("returned", parameter)
    ELSE IF param_name.tag # "str"
    THEN Unchanged("AttributeError", parameter)
    ELSE IF ~StartsWith(param_name.s, action.forbidden_prefix)
    THEN Unchanged("returned", parameter)
    ELSE IF parameters[node].shape = "absent"
    THEN Unchanged("KeyError", parameter)
    ELSE IF parameters[node].shape = "Base"
    THEN RemoveByApplicationName(parameter, node)
    ELSE Unchanged("returned", parameter)

\* MissingValueReportAction.apply(parameter, parent_object).  In
\* affected_parameters[id].append(parameter["name"]) the list is looked up
\* (and its key created) before parameter["name"] is evaluated.
MissingValueApply(parameter, node) ==
    IF has_missing_value(parameter)
    THEN IF parameter.name = Absent
         THEN Outcome("KeyError", parameters,
                      DictAccess(affected_parameters, node), parameter)
         ELSE Outcome("returned", parameters,
                      DictAppend(affected_parameters, node, parameter.name),
                      parameter)
    ELSE Unchanged("returned", parameter)

\* DefaultValueMutationAction.__init__: new_value or "Updated Value"
NewValueOrDefault(new_value) ==
    IF Truthy(new_value) THEN new_value ELSE UpdatedLiteral

\* DefaultValueMutationAction.apply(parameter, parent_object)
DefaultValueApply(parameter, node) ==
    IF has_default_value(parameter)
    THEN LET mutated == [parameter EXCEPT !.value = action.new_value] IN
         IF parameter.name = Absent
         THEN Outcome("KeyError", parameters,
                      DictAccess(affected_parameters, node), mutated)
         ELSE Outcome("returned", parameters,
                      DictAppend(affected_parameters, node, parameter.name),
                      mutated)
    ELSE Unchanged("returned", parameter)

\* set(param for params in self.affected_parameters.values() for param in params)
UniqueNames(affected) ==
    UNION {{affected.list[n][i] : i \in 1..Len(affected.list[n])} : n \in affected.keys}

\* The orders ', '.join(a_set) can produce: every element once, in any order.
Enumerations(S) ==
    {f \in [1..Cardinality(S) -> S] : \A x \in S : \E i \in DOMAIN f : f[i] = x}

Category(kind) ==
    CASE kind = "PrefixRemoval" -> "Removed_Parameters"
      [] kind = "MissingValue" -> "Missing_Values"
      [] kind = "DefaultValue" -> "Updated_Defaults"

\* automate_context.attach_info_to_objects(category, object_ids, message)
AttachInfo(category, object_ids, message) ==
    [category |-> category, object_ids |-> object_ids, message |-> message]

\* ReportCalls without the early return on an empty accumulator.
ReportCallsAlways(message) ==
    <<AttachInfo(Category(action.kind), affected_parameters.keys, message)>>

\* The attach_info_to_objects calls one report() makes, for one join order.
\* PrefixRemovalAction.report returns early on an empty accumulator; the other
\* two actions have no such test.
ReportCalls(message) ==
    IF action.kind = "PrefixRemoval" /\ affected_parameters.keys = {}
    THEN <<>>
    ELSE <<AttachInfo(Category(action.kind), affected_parameters.keys, message)>>

\* ------------------------------------------------------------ operations
\* The two characters are interchangeable, so the prefixes tried are the empty
\* one and those that start with "I".
PrefixArgs == {StrV(x) : x \in {y \in Strings : y = <<>> \/ y[1] = "I"}}

NewValueArgs == {None, StrV(<<>>), StrV(<<"I">>)}

\* The prefixes are shorter than the longest name, so that a name can match a
\* prefix without being equal to it.
\* given is the new_value argument the constructor was called with (None for
\* the classes that take none), new_value the attribute it set.
ActionInstances ==
    {[kind |-> "PrefixRemoval", forbidden_prefix |-> x.s, given |-> None,
      new_value |-> None] :
        x \in {y \in PrefixArgs : Len(y.s) < MaxNameLen}}
    \cup {[kind |-> "MissingValue", forbidden_prefix |-> <<>>, given |-> None,
           new_value |-> None]}
    \cup {[kind |-> "DefaultValue", forbidden_prefix |-> <<>>, given |-> v,
           new_value |-> NewValueOrDefault(v)] : v \in NewValueArgs}

\* The parameters a caller passes to apply, per kind of action.
ParameterArgs(kind) ==
    IF kind = "PrefixRemoval"
    THEN {Parameter(nm, app, Absent) : nm \in NameValues, app \in AppValues}
    ELSE {Parameter(nm, Absent, v) :
            nm \in {Absent, StrV(<<"I">>), StrV(<<"Z">>)}, v \in ValueValues}

Collection(shape, keys) == [shape |-> shape, keys |-> keys]

\* Graphs the actions are tried on: n1 holds a Base collection with every
\* key, n2 a collection of any shape with one key.
InitGraphs ==
    {[n \in Nodes |-> IF n = "n1" THEN Collection("Base", Keys)
                      ELSE Collection(sh, IF sh \in {"Base", "dict"}
                                          THEN {<<"I">>} ELSE {})] :
        sh \in Shapes}

NoOp == [name |-> "init", node |-> "n1", before |-> Parameter(Absent, Absent, Absent),
         parameter |-> Parameter(Absent, Absent, Absent), result |-> "returned"]

\* A fresh action instance: nothing affected, nothing reported.
FreshAction ==
    /\ affected_parameters = EmptyAffected
    /\ sink = <<>>
    /\ op = NoOp
    /\ ncalls = 0

\* The content of the collections, where no operation reads it.
NoEntries == [n \in Nodes |-> [k \in Keys |-> Parameter(Absent, Absent, Absent)]]

\* No pass over the graph is under way.
NoPass ==
    /\ entries = NoEntries
    /\ pass = 0
    /\ order = <<>>
    /\ route = <<>>
    /\ todo = <<>>

\* A member a node does not have, and a member that is a list of nodes.
NoMember == [present |-> FALSE, items |-> <<>>]

ListOf(items) == [present |-> TRUE, items |-> items]

\* Member names a node of the model can carry besides id, speckle_type and
\* parameters.
MemberNames == {"displayValue", "@displayValue", "elements", "@elements", "other"}

\* automate_function is not running.
NoRun ==
    /\ function_inputs = None
    /\ speckle_type = [n \in Nodes |-> <<"Base">>]
    /\ members = [n \in Nodes |-> [m \in MemberNames |-> NoMember]]
    /\ pc = "idle"
    /\ stack = <<>>
    /\ visited = <<>>
    /\ cleansed_objects = EmptyAffected
    /\ calls = <<>>

Init ==
    /\ action \in ActionInstances
    /\ parameters \in InitGraphs
    /\ original = parameters
    /\ FreshAction
    /\ NoPass
    /\ NoRun

\* action.apply(parameter, parent_object), dispatched on the action's class.
ApplyOutcome(parameter, node) ==
    CASE action.kind = "PrefixRemoval" -> PrefixRemovalApply(parameter, node)
      [] action.kind = "MissingValue" -> MissingValueApply(parameter, node)
      [] action.kind = "DefaultValue" -> DefaultValueApply(parameter, node)

Apply ==
    /\ op.name # "report"
    /\ ncalls < MaxCalls
    /\ \E node \in Nodes, parameter \in ParameterArgs(action.kind) :
         LET out == ApplyOutcome(parameter, node) IN
         /\ parameters' = out.parameters
         /\ affected_parameters' = out.affected_parameters
         /\ op' = [name |-> "apply", node |-> node, before |-> parameter,
                   parameter |-> out.parameter, result |-> out.result]
    /\ ncalls' = ncalls + 1
    /\ UNCHANGED <<action, sink, original, passVars, graphVars, runVars>>

\* action.report(automate_context)
Report ==
    /\ op.name # "report"
    /\ LET names == UniqueNames(affected_parameters) IN
       IF \E x \in names : x.tag # "str"
       THEN /\ sink' = sink
            /\ op' = [NoOp EXCEPT !.name = "report", !.result = "TypeError"]
       ELSE \E message \in Enumerations(names) :
              /\ sink' = sink \o ReportCalls(message)
              /\ op' = [NoOp EXCEPT !.name = "report"]
    /\ UNCHANGED <<action, parameters, affected_parameters, ncalls, original, passVars,
                   graphVars, runVars>>

Next == Apply \/ Report

Spec == Init /\ [][Next]_vars

\* ------------------------------------------------- a pass over the graph
\* One pass: every node in turn, and for each node that carries a collection
\* every parameter the collection holds when the node is visited, handed to
\* the action's apply.  An exception out of apply ends the program.  A node
\* that is reached through two paths is visited once per path.
NodeOrders == {<<"n1", "n2">>, <<"n1", "n2", "n2">>, <<"n1", "n2", "n1">>}

\* The keys in the order a collection is enumerated.
KeyOrder == <<<<"I">>, <<"Z">>>>

\* The parameters of a node as (node, parameter) pairs, in enumeration order.
Snapshot(node) ==
    LET present == SelectSeq(KeyOrder, LAMBDA k : k \in parameters[node].keys) IN
    [i \in 1..Len(present) |-> [node |-> node, parameter |-> entries[node][present[i]]]]

PassNames == {Absent} \cup {StrV(x) : x \in StrOfLen(1)}

PassParameters == {Parameter(nm, app, Absent) : nm \in PassNames, app \in AppValues}

\* Graphs a pass is tried on: n1 holds a Base collection with both keys, n2 a
\* collection of any shape with one key.
PassGraphs ==
    {[n \in Nodes |-> IF n = "n1" THEN Collection("Base", Keys)
                      ELSE Collection(sh, IF sh \in {"Base", "dict"}
                                          THEN {<<"I">>} ELSE {})] :
        sh \in Shapes}

PassEntries ==
    {e \in [Nodes -> [Keys -> PassParameters]] :
        e["n2"][<<"Z">>] = Parameter(Absent, Absent, Absent)}

PassInit ==
    /\ action \in {a \in ActionInstances :
                     a.kind = "PrefixRemoval" /\ Len(a.forbidden_prefix) <= 1}
    /\ parameters \in PassGraphs
    /\ original = parameters
    /\ FreshAction
    /\ entries \in PassEntries
    /\ \A n \in Nodes : \A k \in Keys \ parameters[n].keys :
         entries[n][k] = Parameter(Absent, Absent, Absent)
    /\ pass = 0
    /\ order \in NodeOrders
    /\ route = order
    /\ todo = <<>>
    /\ NoRun

\* The pass reaches the next node and enumerates its collection.
PassVisit ==
    /\ op.result = "returned"
    /\ todo = <<>>
    /\ route # <<>>
    /\ route' = Tail(route)
    /\ todo' = IF parameters[Head(route)].shape \in {"Base", "dict"}
               THEN Snapshot(Head(route)) ELSE <<>>
    /\ UNCHANGED <<actionVars, original, entries, pass, order, graphVars, runVars>>

\* The pass hands the next parameter of the visited node to apply.
PassApply ==
    /\ op.result = "returned"
    /\ todo # <<>>
    /\ LET out == PrefixRemovalApply(Head(todo).parameter, Head(todo).node) IN
       /\ parameters' = out.parameters
       /\ affected_parameters' = out.affected_parameters
       /\ op' = [name |-> "apply", node |-> Head(todo).node,
                 before |-> Head(todo).parameter,
                 parameter |-> out.parameter, result |-> out.result]
    /\ ncalls' = ncalls + 1
    /\ todo' = Tail(todo)
    /\ UNCHANGED <<action, sink, original, entries, pass, order, route, graphVars,
                   runVars>>

\* The pass is over; a second one follows the first.
PassEnd ==
    /\ op.result = "returned"
    /\ todo = <<>>
    /\ route = <<>>
    /\ pass < 2
    /\ pass' = pass + 1
    /\ route' = IF pass = 0 THEN order ELSE <<>>
    /\ UNCHANGED <<actionVars, original, entries, order, todo, graphVars, runVars>>

PassNext == PassVisit \/ PassApply \/ PassEnd

SpecPass == PassInit /\ [][PassNext]_vars

\* ------------------------------------- Rules/traversal.py and main.py
display_value_property_aliases == {"displayValue", "@displayValue"}

elements_property_aliases == {"elements", "@elements"}

\* bool(getattr(o, alias, None)): the member is there and is a non-empty list.
GetAttrTruthy(o, alias) ==
    /\ alias \in MemberNames
    /\ members[o][alias].present
    /\ members[o][alias].items # <<>>

\* lambda o: any(getattr(o, alias, None) for alias in display_value_property_aliases)
HasDisplayValue(o) ==
    \E alias \in display_value_property_aliases : GetAttrTruthy(o, alias)

\* o.speckle_type == "Geometry" in place of the containment test.
IsExactlyGeometry(o) == speckle_type[o] = <<"Geometry">>

\* lambda o: "Geometry" in o.speckle_type; a type tag is its dotted words.
IsGeometry(o) ==
    \E i \in DOMAIN speckle_type[o] : speckle_type[o][i] = "Geometry"

\* o.get_member_names(): every member the node has.
get_member_names(o) ==
    {m \in MemberNames : members[o][m].present}
    \cup {"id", "speckle_type"}
    \cup (IF parameters[o].shape = "absent" THEN {} ELSE {"parameters"})

\* GraphTraversal([display_value_rule, default_rule])
Rules == <<"display_value_rule", "default_rule">>

\* The conditions a TraversalRule was built with, evaluated on o.
Conditions(rule, o) ==
    IF rule = "display_value_rule"
    THEN <<HasDisplayValue(o), IsGeometry(o)>>
    ELSE <<TRUE>>

\* The member names a TraversalRule was built to continue with.
MembersToTraverse(rule, o) ==
    IF rule = "display_value_rule"
    THEN elements_property_aliases
    ELSE get_member_names(o)

\* A rule applies when each of its conditions holds.
DoesRuleHold(rule, o) ==
    \A i \in DOMAIN Conditions(rule, o) : Conditions(rule, o)[i]

\* The first rule, in priority order, that applies.
ActiveRule(o) ==
    Rules[CHOOSE i \in DOMAIN Rules :
            /\ DoesRuleHold(Rules[i], o)
            /\ \A j \in 1..(i - 1) : ~DoesRuleHold(Rules[j], o)]

\* The order in which the selected members are resolved.
MemberOrder == <<"displayValue", "@displayValue", "elements", "@elements", "other">>

Context(current, member_name, parent) ==
    [current |-> current, member_name |-> member_name, parent |-> parent]

\* The contexts of the nodes held by member m of node o.
MemberContexts(o, m) ==
    [i \in DOMAIN members[o][m].items |-> Context(members[o][m].items[i], m, o)]

RECURSIVE ChildContexts(_, _, _)
\* The contexts of the children of o under the selected members, taking the
\* members from position i of MemberOrder on.  A selected name the node does
\* not have, or whose value is empty or no node, yields nothing.  (The
\* collection under "parameters" and the Parameter objects in it are Bases
\* without a parameters member of their own: visiting them changes nothing,
\* and their visits are left out.)
ChildContexts(o, selected, i) ==
    IF i > Len(MemberOrder) THEN <<>>
    ELSE (IF MemberOrder[i] \in selected /\ GetAttrTruthy(o, MemberOrder[i])
          THEN MemberContexts(o, MemberOrder[i]) ELSE <<>>)
         \o ChildContexts(o, selected, i + 1)

\* What traverse pushes for a node: the children the active rule selects.
Expand(o) == ChildContexts(o, MembersToTraverse(ActiveRule(o), o), 1)

\* ------------------------------------------------- main.automate_function
\* Keys of the collections automate_function works on, in enumeration order.
RunKeyOrder == <<<<"I", "I">>, <<"I", "Z">>, <<"Z", "I">>>>

RunKeys == {RunKeyOrder[i] : i \in DOMAIN RunKeyOrder}

TypeTags == {<<"Objects", "Geometry", "Mesh">>, <<"Objects", "BuiltElements", "Wall">>}

\* function_inputs.forbidden_parameter_prefix: absent, empty, or a prefix.
PrefixInputs == {None} \cup PrefixArgs

NoAction ==
    [kind |-> "none", forbidden_prefix |-> <<>>, given |-> None, new_value |-> None]

\* The graphs receive_version can return: root n1 with any members, each
\* holding the leaf n2; collections of every shape.
RunMembers ==
    {[n \in Nodes |-> IF n = "n1" THEN f ELSE [m \in MemberNames |-> NoMember]] :
        f \in {g \in [MemberNames -> {NoMember, ListOf(<<>>), ListOf(<<"n2">>)}] :
                 \A m \in MemberNames \ {"displayValue"} : g[m] # ListOf(<<>>)}}

RunGraphs ==
    {[n \in Nodes |-> IF n = "n1" THEN c1 ELSE c2] :
        c1 \in {Collection("Base", ks) : ks \in SUBSET RunKeys}
               \cup {Collection(sh, {}) : sh \in {"None", "absent", "dict"}},
        c2 \in {Collection("Base", ks) : ks \in SUBSET RunKeys}
               \cup {Collection("absent", {})}}

RunInit ==
    /\ action = NoAction
    /\ parameters \in RunGraphs
    /\ original = parameters
    /\ FreshAction
    /\ NoPass
    /\ function_inputs \in PrefixInputs
    /\ speckle_type \in {[n \in Nodes |-> IF n = "n1" THEN tag
                                          ELSE <<"Objects", "BuiltElements", "Wall">>] :
                           tag \in TypeTags}
    /\ members \in RunMembers
    /\ pc = "start"
    /\ stack = <<>>
    /\ visited = <<>>
    /\ cleansed_objects = EmptyAffected
    /\ calls = <<>>

\* A call on automate_context, with what it returned.
Call(name, message) ==
    [call |-> name, message |-> message, object_ids |-> {}, names |-> <<>>,
     result |-> None]

\* The test of lines 47-50 as a test for an absent prefix alone.
PrefixIsNone(inputs) == inputs = None

\* not function_inputs.forbidden_parameter_prefix
\*   or function_inputs.forbidden_parameter_prefix == ""
NoPrefixSet(inputs) == ~Truthy(inputs) \/ inputs = StrV(<<>>)

\* Lines 47-52: no prefix, the run is marked failed.
RunNoPrefix ==
    /\ pc = "start"
    /\ NoPrefixSet(function_inputs)
    /\ calls' = Append(calls, Call("mark_run_failed", "No prefix has been set."))
    /\ pc' = "done"
    /\ UNCHANGED <<actionVars, original, passVars, graphVars, function_inputs,
                   stack, visited, cleansed_objects>>

\* Lines 54-60: the root is received (or receive_version raises) and the
\* traversal starts from it.
RunReceive ==
    /\ pc = "start"
    /\ ~NoPrefixSet(function_inputs)
    /\ calls' = Append(calls, Call("receive_version", ""))
    /\ \E received \in BOOLEAN :
         IF received
         THEN pc' = "traversing" /\ stack' = <<Context("n1", "", "")>>
         ELSE pc' = "raised" /\ stack' = stack
    /\ UNCHANGED <<actionVars, original, passVars, graphVars, function_inputs,
                   visited, cleansed_objects>>

\* The keys the node's collection holds, in enumeration order.
PresentKeys(current) ==
    SelectSeq(RunKeyOrder, LAMBDA k : k \in parameters[current].keys)

\* KeysToCleanse with the names enumerated while entries are removed: a
\* matching key that follows another matching key is passed over.
KeysToCleanseSkipping(current) ==
    LET present == PresentKeys(current)
        hit == {i \in DOMAIN present : StartsWith(present[i], function_inputs.s)}
        taken == {i \in hit : (i - 1) \notin hit}
    IN  SelectSeq(present, LAMBDA k : \E i \in taken : present[i] = k)

\* The keys of the node's collection that start with the prefix, in order:
\* the names are listed before any entry is removed.
KeysToCleanse(current) ==
    SelectSeq(RunKeyOrder,
              LAMBDA k : /\ k \in parameters[current].keys
                         /\ StartsWith(k, function_inputs.s))

\* cleansed_objects[current.id] gets the names, the key created at need.
Cleansed(current, names) ==
    IF names = <<>> THEN cleansed_objects
    ELSE [keys |-> cleansed_objects.keys \cup {current},
          list |-> [cleansed_objects.list EXCEPT ![current] = @ \o names]]

\* Lines 62-84 for one context: traverse pops and yields it, the loop body
\* removes the prefixed parameters of its node, and traverse pushes the
\* node's children.
RunVisit ==
    /\ pc = "traversing"
    /\ stack # <<>>
    /\ LET head == stack[Len(stack)]
           current == head.current
           rest == SubSeq(stack, 1, Len(stack) - 1)
       IN
       /\ visited' = Append(visited, head)
       /\ IF parameters[current].shape = "dict"
          THEN /\ pc' = "raised"
               /\ stack' = rest
               /\ UNCHANGED <<parameters, cleansed_objects>>
          ELSE /\ pc' = pc
               /\ stack' = rest \o Expand(current)
               /\ IF parameters[current].shape = "Base"
                  THEN LET names == KeysToCleanse(current) IN
                       /\ parameters' =
                            [parameters EXCEPT ![current].keys =
                               {k \in @ : \A i \in DOMAIN names : names[i] # k}]
                       /\ cleansed_objects' = Cleansed(current, names)
                  ELSE UNCHANGED <<parameters, cleansed_objects>>
    /\ UNCHANGED <<action, affected_parameters, sink, op, ncalls, original, passVars,
                   graphVars, function_inputs, calls>>

\* Lines 88-90: nothing was cleansed.
RunNothingCleansed ==
    /\ pc = "traversing"
    /\ stack = <<>>
    /\ cleansed_objects.keys = {}
    /\ calls' = Append(calls, Call("mark_run_success", "No parameters were cleansed."))
    /\ pc' = "done"
    /\ UNCHANGED <<actionVars, original, passVars, graphVars, function_inputs,
                   stack, visited, cleansed_objects>>

\* sum(cleansed_objects.values(), []) as a set.
CleansedNames ==
    UNION {{cleansed_objects.list[n][i] : i \in DOMAIN cleansed_objects.list[n]} :
             n \in cleansed_objects.keys}

\* create_new_version_in_project(...) returning new_version_id.
CreateVersion(new_version_id) ==
    [Call("create_new_version_in_project",
          "This version has been cleansed of parameters with the prefix '")
       EXCEPT !.result = new_version_id]

\* attach_info_to_objects(category="Cleansed_parameters", ...), for one
\* order of the joined names.
AttachCleansed(names) ==
    [call |-> "attach_info_to_objects",
     message |-> "The following parameters were cleansed: ",
     object_ids |-> cleansed_objects.keys, names |-> names, result |-> None]

MarkFailedNoVersion == Call("mark_run_failed", "Failed to create new version.")

MarkSuccessCleansed == Call("mark_run_success", "Successfully cleansed parameters.")

\* Lines 94-113 without the return after mark_run_failed.
CallsAfterCreateNoReturn(new_version_id, names) ==
    IF new_version_id = None
    THEN <<CreateVersion(new_version_id), MarkFailedNoVersion,
           AttachCleansed(names), MarkSuccessCleansed>>
    ELSE <<CreateVersion(new_version_id), AttachCleansed(names), MarkSuccessCleansed>>

\* Lines 94-113 with the report attached before the version id is tested.
CallsAfterCreateAttachFirst(new_version_id, names) ==
    IF new_version_id = None
    THEN <<CreateVersion(new_version_id), AttachCleansed(names), MarkFailedNoVersion>>
    ELSE <<CreateVersion(new_version_id), AttachCleansed(names), MarkSuccessCleansed>>

\* Lines 94-113: the calls made once something was cleansed.  Without a
\* version id the run is marked failed; with one the report is attached and
\* the run marked successful.
CallsAfterCreate(new_version_id, names) ==
    IF new_version_id = None
    THEN <<CreateVersion(new_version_id), MarkFailedNoVersion>>
    ELSE <<CreateVersion(new_version_id), AttachCleansed(names), MarkSuccessCleansed>>

\* Lines 94-113: a new version is created, and the run ends.
RunCreateVersion ==
    /\ pc = "traversing"
    /\ stack = <<>>
    /\ cleansed_objects.keys # {}
    /\ \E new_version_id \in {None, StrV(<<"v">>)}, names \in Enumerations(CleansedNames) :
         calls' = calls \o CallsAfterCreate(new_version_id, names)
    /\ pc' = "done"
    /\ UNCHANGED <<actionVars, original, passVars, graphVars, function_inputs,
                   stack, visited, cleansed_objects>>

RunNext ==
    \/ RunNoPrefix
    \/ RunReceive
    \/ RunVisit
    \/ RunNothingCleansed
    \/ RunCreateVersion

SpecRun == RunInit /\ [][RunNext]_vars

\* ---------------------------------------------------------------- claims
\* The step just taken was an apply call of a PrefixRemovalAction.
PrefixApplyStep == action.kind = "PrefixRemoval" /\ ncalls' = ncalls + 1

\* parameter.name is a non-empty str that starts with the forbidden prefix.
NameMatches(parameter) ==
    /\ parameter.name.tag = "str"
    /\ parameter.name.s # <<>>
    /\ StartsWith(parameter.name.s, action.forbidden_prefix)

\* The secondary key of the parameter is a key of the node's collection.
SecondaryKeyPresent(parameter, node) ==
    /\ parameter.applicationInternalName.tag = "str"
    /\ parameter.applicationInternalName.s \in parameters[node].keys

\* Exactly the entry under the secondary key goes, and the name is appended
\* once under the node's id.
RemovedAndRecorded(parameter, node) ==
    /\ parameters' = [parameters EXCEPT
                        ![node].keys = @ \ {parameter.applicationInternalName.s}]
    /\ affected_parameters'.keys = affected_parameters.keys \cup {node}
    /\ affected_parameters'.list =
         [affected_parameters.list EXCEPT ![node] = Append(@, parameter.name)]

\* C1 as written: apply is a no-op unless the name matches; when it matches
\* and the secondary key is a key of the owning node's collection (of whatever
\* shape), that entry is removed and the name recorded once.
C1_AsWritten ==
    [][PrefixApplyStep =>
        /\ ~NameMatches(op'.before) =>
             UNCHANGED <<parameters, affected_parameters>>
        /\ (NameMatches(op'.before) /\ SecondaryKeyPresent(op'.before, op'.node)) =>
             RemovedAndRecorded(op'.before, op'.node)]_vars

\* C1 amended: the same, for a collection that is a Base object; a collection
\* of another shape is left alone.
C1_PrefixRemovalApply ==
    [][PrefixApplyStep =>
        /\ ~NameMatches(op'.before) =>
             UNCHANGED <<parameters, affected_parameters>>
        /\ (/\ NameMatches(op'.before)
            /\ SecondaryKeyPresent(op'.before, op'.node)
            /\ parameters[op'.node].shape = "Base") =>
             RemovedAndRecorded(op'.before, op'.node)
        /\ parameters[op'.node].shape # "Base" =>
             UNCHANGED <<parameters, affected_parameters>>]_vars

\* A matching parameter was removed from a Base collection and recorded.
C1_Witness ==
    /\ action.kind = "PrefixRemoval"
    /\ op.name = "apply"
    /\ op.result = "returned"
    /\ NameMatches(op.before)
    /\ op.before.applicationInternalName.tag = "str"
    /\ op.before.applicationInternalName.s \notin parameters[op.node].keys
    /\ Len(affected_parameters.list[op.node]) > 0

\* The step just taken was report() on a PrefixRemovalAction.
PrefixReportStep ==
    action.kind = "PrefixRemoval" /\ op.name # "report" /\ op'.name = "report"

\* Nodes that lost at least one parameter.
NodesWithRemoval == {n \in Nodes : parameters[n].keys # original[n].keys}

\* How often x occurs in the sequence m.
Occurrences(m, x) == Cardinality({i \in DOMAIN m : m[i] = x})

\* C3: report() makes no sink call when nothing was affected; otherwise exactly
\* one call, tagged Removed_Parameters, for exactly the nodes that lost a
\* parameter, whose message names each affected name exactly once.
C3_PrefixRemovalReport ==
    [][PrefixReportStep =>
        IF NodesWithRemoval = {}
        THEN sink' = sink
        ELSE /\ Len(sink') = Len(sink) + 1
             /\ SubSeq(sink', 1, Len(sink)) = sink
             /\ LET call == sink'[Len(sink')] IN
                /\ call.category = "Removed_Parameters"
                /\ call.object_ids = NodesWithRemoval
                /\ \A n \in Nodes : \A i \in DOMAIN affected_parameters.list[n] :
                     Occurrences(call.message, affected_parameters.list[n][i]) = 1
                /\ \A i \in DOMAIN call.message :
                     call.message[i] \in UniqueNames(affected_parameters)]_vars

\* A report was sent for a name that was removed twice (from both nodes, or
\* twice from one) and is named once.
C3_Witness ==
    /\ action.kind = "PrefixRemoval"
    /\ op.name = "report"
    /\ Len(sink) = 1
    /\ \E n \in Nodes : Len(affected_parameters.list[n]) > 0
    /\ Len(sink[1].message) <
         Len(affected_parameters.list["n1"]) + Len(affected_parameters.list["n2"])

\* The cases C8 lists in which apply must leave everything alone.
C8_SkipCase(parameter, node) ==
    \/ parameter.name \in {Absent, None, StrV(<<>>)}
    \/ parameter.applicationInternalName = Absent
    \/ ~SecondaryKeyPresent(parameter, node)
    \/ parameters[node].shape # "Base"

\* C8 as written: every apply call of a PrefixRemovalAction returns normally,
\* and in the listed cases changes neither the collection nor the accumulator.
C8_NoExceptionFromApply ==
    [][PrefixApplyStep =>
        /\ op'.result = "returned"
        /\ C8_SkipCase(op'.before, op'.node) =>
             UNCHANGED <<parameters, affected_parameters>>]_vars

\* C10 as written: has_missing_value is true exactly for an absent, null or
\* empty-string value, whatever the type of the value, and never together
\* with has_default_value.
C10_MissingValueRule ==
    (action.kind = "MissingValue" /\ op.name = "apply") =>
        /\ has_missing_value(op.before) <=>
             op.before.value \in {Absent, None, StrV(<<>>)}
        /\ ~(has_missing_value(op.before) /\ has_default_value(op.before))

\* The step just taken was an apply call of a DefaultValueMutationAction.
DefaultApplyStep == action.kind = "DefaultValue" /\ ncalls' = ncalls + 1

\* The value the claim has apply write: the new_value the action was
\* constructed with, "Updated Value" when none was given.
GivenNewValue == IF action.given = None THEN UpdatedLiteral ELSE action.given

\* C11 as written: when has_default_value holds, apply overwrites the value
\* with the new_value the action was constructed with ("Updated Value" only
\* when none was given) and appends the name under the node's id; when it
\* does not hold, the parameter and the accumulator are unchanged.
C11_DefaultValueMutation ==
    [][DefaultApplyStep =>
        IF has_default_value(op'.before)
        THEN /\ op'.parameter = [op'.before EXCEPT !.value = GivenNewValue]
             /\ affected_parameters' =
                  DictAppend(affected_parameters, op'.node, op'.before.name)
        ELSE /\ op'.parameter = op'.before
             /\ UNCHANGED affected_parameters]_vars

\* The step just taken was an apply call of one of the three actions.
ApplyStep == ncalls' = ncalls + 1

\* The call appended exactly one name, the parameter's, to the end of the
\* list of the owning node, and touched nothing else.
AppendedOne ==
    /\ affected_parameters'.keys = affected_parameters.keys \cup {op'.node}
    /\ affected_parameters'.list =
         [affected_parameters.list EXCEPT ![op'.node] = Append(@, op'.before.name)]

\* A node id is a key of the accumulator only if its list is non-empty.
KeysHaveEntries ==
    \A n \in affected_parameters.keys : affected_parameters.list[n] # <<>>

\* C12 as written: every apply call of the three actions leaves the
\* accumulator unchanged or appends exactly one parameter name to the end of
\* the owning node's list, so that entries are never removed, reordered or
\* deduplicated; and a node id is a key only if its list is non-empty.
C12_AccumulatorContract ==
    /\ [][ApplyStep => (UNCHANGED affected_parameters \/ AppendedOne)]_vars
    /\ []KeysHaveEntries

\* The position in order of the node the pass is visiting.
CurrentVisit == Len(order) - Len(route)

\* The node being visited was already visited earlier in this pass.
RepeatedVisit ==
    /\ pass = 0
    /\ CurrentVisit >= 1
    /\ \E j \in 1..(CurrentVisit - 1) : order[j] = order[CurrentVisit]

\* How often the pass visits node n.
Visits(n) == Cardinality({i \in DOMAIN order : order[i] = n})

\* The keys node n has lost.
RemovedKeys(n) == original[n].keys \ parameters[n].keys

\* The first pass is complete.
PassComplete == pass >= 1

\* C13 as written: a repeated visit of a node in one pass leaves its
\* collection as the first visit left it, and the accumulator list of the
\* node holds one entry per removed parameter and visit.
C13_AsWritten ==
    /\ [][(RepeatedVisit /\ todo # <<>>) => UNCHANGED parameters]_vars
    /\ [](PassComplete =>
            \A n \in Nodes :
                Len(affected_parameters.list[n]) =
                    Visits(n) * Cardinality(RemovedKeys(n)))

\* C13 amended: a repeated visit of a node in one pass changes neither its
\* collection nor the accumulator: the removal is idempotent, and the
\* accumulator list of the node holds one entry per removed parameter,
\* however often the node is visited.
C13_DuplicateVisits ==
    /\ [][(RepeatedVisit /\ todo # <<>>) =>
            UNCHANGED <<parameters, affected_parameters>>]_vars
    /\ [](PassComplete =>
            \A n \in Nodes :
                Len(affected_parameters.list[n]) = Cardinality(RemovedKeys(n)))

\* A pass visited n1 twice: the first visit removed a parameter, the second
\* applied the action again to a parameter that still matches.
C13_Witness ==
    /\ pass = 1
    /\ Visits("n1") = 2
    /\ RemovedKeys("n1") # {}
    /\ op.name = "apply"
    /\ op.node = "n1"
    /\ NameMatches(op.before)
    /\ op.before.applicationInternalName.tag = "str"
    /\ Len(affected_parameters.list["n1"]) = 1

\* C2: once a first pass of a PrefixRemovalAction over the graph is complete,
\* a second pass removes nothing and records nothing: the graph after two
\* passes is the graph after one.
C2_SecondPassRemovesNothing ==
    [][pass >= 1 => UNCHANGED <<parameters, affected_parameters>>]_vars

\* Two passes are complete, the first removed something, and the second
\* applied the action to a parameter that still matches.
C2_Witness ==
    /\ pass = 2
    /\ parameters # original
    /\ op.name = "apply"
    /\ NameMatches(op.before)
    /\ op.node = "n2"
    /\ parameters["n1"].keys # {}

\* The calls that signal the outcome of the run.
OutcomeCalls ==
    {i \in DOMAIN calls : calls[i].call \in {"mark_run_success", "mark_run_failed"}}

CallsNamed(name) == {i \in DOMAIN calls : calls[i].call = name}

\* C4: a run of automate_function that has returned made exactly one outcome
\* call, and made it last; a run still under way (or ended by an exception)
\* has made none.
C4_ExactlyOneOutcome ==
    IF pc = "done"
    THEN Cardinality(OutcomeCalls) = 1 /\ Len(calls) \in OutcomeCalls
    ELSE OutcomeCalls = {}

\* A run returned after version creation failed.
C4_Witness ==
    /\ pc = "done"
    /\ Len(calls) = 3
    /\ calls[2].call = "create_new_version_in_project"
    /\ calls[3].call = "mark_run_failed"

\* C5: with an empty or absent prefix the run is marked failed at once: the
\* root is not received, nothing is visited, no collection changes, no
\* version is created, nothing is reported.
C5_ConfigurationError ==
    (function_inputs \in {None, StrV(<<>>)} /\ pc # "start") =>
        /\ pc = "done"
        /\ calls = <<Call("mark_run_failed", "No prefix has been set.")>>
        /\ visited = <<>>
        /\ stack = <<>>
        /\ parameters = original
        /\ cleansed_objects = EmptyAffected

\* A run with the empty string as prefix returned, over a graph that has
\* parameters to lose.
C5_Witness ==
    /\ function_inputs = StrV(<<>>)
    /\ pc = "done"
    /\ parameters["n1"].keys # {}

\* C6: when create_new_version_in_project returned None the run has ended
\* with mark_run_failed and without mark_run_success, the version was asked
\* for once, and no report was attached.
C6_VersionCreationFailed ==
    /\ Cardinality(CallsNamed("create_new_version_in_project")) <= 1
    /\ \A i \in CallsNamed("create_new_version_in_project") :
         calls[i].result = None =>
            /\ pc = "done"
            /\ calls[Len(calls)].call = "mark_run_failed"
            /\ CallsNamed("mark_run_success") = {}
            /\ CallsNamed("attach_info_to_objects") = {}

\* Version creation failed after parameters were removed from both nodes.
C6_Witness ==
    /\ pc = "done"
    /\ \E i \in DOMAIN calls :
         calls[i].call = "create_new_version_in_project" /\ calls[i].result = None
    /\ cleansed_objects.keys = Nodes

\* s begins with the characters of prefix.
HasPrefix(s, prefix) ==
    Len(prefix) <= Len(s) /\ SubSeq(s, 1, Len(prefix)) = prefix

\* The prefix is set and no key of any collection of the received graph
\* starts with it.
NoMatch ==
    /\ function_inputs.tag = "str"
    /\ function_inputs.s # <<>>
    /\ \A n \in Nodes : \A k \in original[n].keys : ~HasPrefix(k, function_inputs.s)

GeometryWithDisplay(o) ==
    /\ \E i \in DOMAIN speckle_type[o] : speckle_type[o][i] = "Geometry"
    /\ \E m \in {"displayValue", "@displayValue"} :
         members[o][m].present /\ members[o][m].items # <<>>

\* The (member, child) pairs under which children of o have been pushed.
PushedFrom(o) ==
    {<<c.member_name, c.current>> :
        c \in {x \in {visited[i] : i \in DOMAIN visited} \cup {stack[i] : i \in DOMAIN stack} :
                 x.parent = o}}

\* The (member, child) pairs of the nodes held by the members ms of o.
HeldBy(o, ms) ==
    UNION {{<<m, members[o][m].items[i]>> : i \in DOMAIN members[o][m].items} :
             m \in ms \cap MemberNames}

\* The traversal has yielded o and pushed its children.
Expanded(o) ==
    \E i \in DOMAIN visited :
        visited[i].current = o /\ ~(pc = "raised" /\ i = Len(visited))

\* C9: for a Geometry node with a non-empty display value the display rule
\* wins: the traversal descends into its elements / @elements members and
\* into nothing else; for every other node the default rule selects all of
\* the node's member names, and the traversal descends into all of them.
C9_GeometryShortCircuit ==
    \A o \in Nodes :
        /\ GeometryWithDisplay(o) =>
             /\ ActiveRule(o) = "display_value_rule"
             /\ MembersToTraverse(ActiveRule(o), o) = {"elements", "@elements"}
             /\ Expanded(o) => PushedFrom(o) = HeldBy(o, {"elements", "@elements"})
        /\ ~GeometryWithDisplay(o) =>
             /\ ActiveRule(o) = "default_rule"
             /\ MembersToTraverse(ActiveRule(o), o) = get_member_names(o)
             /\ Expanded(o) => PushedFrom(o) = HeldBy(o, MemberNames)

\* The traversal went through a Geometry node that holds a node under
\* displayValue, under elements and under another member.
C9_Witness ==
    /\ GeometryWithDisplay("n1")
    /\ members["n1"]["displayValue"].items # <<>>
    /\ members["n1"]["elements"].items # <<>>
    /\ members["n1"]["other"].items # <<>>
    /\ Expanded("n1")
    /\ Len(visited) >= 2

\* The nodes the traversal has yielded.
VisitedNodes == {visited[i].current : i \in DOMAIN visited}

\* The traversal has run to its end.
TraversalOver ==
    /\ visited # <<>>
    /\ stack = <<>>
    /\ pc \in {"traversing", "done"}

\* C14: after the traversal, the collection of every visited node holds
\* exactly the keys it had that do not start with the prefix; every removed
\* key is recorded exactly once under its node's id and nothing else is; and
\* a node id is in the cleansed map iff the node lost a key.
C14_CleansedPostcondition ==
    TraversalOver =>
        /\ \A n \in VisitedNodes :
             parameters[n].keys =
                 {k \in original[n].keys : ~HasPrefix(k, function_inputs.s)}
        /\ \A n \in Nodes :
             /\ \A k \in RemovedKeys(n) : Occurrences(cleansed_objects.list[n], k) = 1
             /\ Len(cleansed_objects.list[n]) = Cardinality(RemovedKeys(n))
             /\ n \in cleansed_objects.keys <=> RemovedKeys(n) # {}

\* A traversal that visited n2 twice has ended: n2 lost two keys and kept
\* one, and n1 lost a key as well.
C14_Witness ==
    /\ TraversalOver
    /\ Cardinality({i \in DOMAIN visited : visited[i].current = "n2"}) >= 2
    /\ Cardinality(RemovedKeys("n2")) = 2
    /\ parameters["n2"].keys # {}
    /\ RemovedKeys("n1") # {}

====
